---- MODULE Spec2Model ----
(***************************************************************************)
(* Model of the EMC/RF regulatory lookup server                            *)
(* (src/src/mcp_emc_regulations/server.py).                                *)
(*                                                                         *)
(* The reference tables are Python dicts and lists: a dict is a function   *)
(* whose DOMAIN is its set of keys (the empty dict is <<>>), a list is a   *)
(* sequence.  Text whose case or substrings the code inspects is a         *)
(* sequence of one-character strings; other text is a plain string.        *)
(* Frequencies are MHz on an integer grid; dB values are tenths of a dB,   *)
(* so that the 10.5 dB distance correction is the integer 105.             *)
(* The text an operation returns is a sequence of lines, each a record     *)
(* with a tag "t" and the values the line prints.                          *)
(***************************************************************************)
EXTENDS Integers, Sequences, FiniteSets, TLC

VARIABLES
    PART15_LIMITS,      \* part15_limits.json as loaded
    PART18_LIMITS,      \* part18_limits.json as loaded
    RESTRICTED_BANDS,   \* restricted_bands.json as loaded
    CISPR_LIMITS,       \* cispr_limits.json as loaded
    LTE_BANDS,          \* lte_bands.json as loaded
    NR_BANDS,           \* nr_bands.json as loaded
    pc,                 \* "idle" | "awaiting" (ecfr_query suspended) | "done"
    call,               \* the operation name and arguments being served
    result              \* what call_tool produced for call

vars == <<PART15_LIMITS, PART18_LIMITS, RESTRICTED_BANDS, CISPR_LIMITS,
          LTE_BANDS, NR_BANDS, pc, call, result>>

store == <<PART15_LIMITS, PART18_LIMITS, RESTRICTED_BANDS, CISPR_LIMITS,
           LTE_BANDS, NR_BANDS>>

(***************************************************************************)
(* Python values                                                           *)
(***************************************************************************)
EmptyDict == <<>>

\* dict.get(k, default)
Get(d, k, default) == IF k \in DOMAIN d THEN d[k] ELSE default

\* None is the empty sequence, a value v is <<v>>
None == <<>>
Some(v) == <<v>>

\* f"{d.get(k, '?')}" for a numeric field: the number or the placeholder
Num(n) == [k |-> "num", n |-> n]
Placeholder == [k |-> "?"]
GetNum(d, k) == IF k \in DOMAIN d THEN Num(d[k]) ELSE Placeholder

UpperAlphabet == <<"A", "B", "C", "D", "E", "F", "G", "H", "I", "J", "K", "L", "M",
                   "N", "O", "P", "Q", "R", "S", "T", "U", "V", "W", "X", "Y", "Z">>
LowerAlphabet == <<"a", "b", "c", "d", "e", "f", "g", "h", "i", "j", "k", "l", "m",
                   "n", "o", "p", "q", "r", "s", "t", "u", "v", "w", "x", "y", "z">>

IsUpperChar(c) == \E i \in DOMAIN UpperAlphabet : UpperAlphabet[i] = c
IsLowerChar(c) == \E i \in DOMAIN LowerAlphabet : LowerAlphabet[i] = c

LowerChar(c) ==
    IF IsUpperChar(c)
    THEN LowerAlphabet[CHOOSE i \in DOMAIN UpperAlphabet : UpperAlphabet[i] = c]
    ELSE c

UpperChar(c) ==
    IF IsLowerChar(c)
    THEN UpperAlphabet[CHOOSE i \in DOMAIN LowerAlphabet : LowerAlphabet[i] = c]
    ELSE c

\* str.lower(), str.upper()
Lower(s) == [i \in DOMAIN s |-> LowerChar(s[i])]
Upper(s) == [i \in DOMAIN s |-> UpperChar(s[i])]

\* str.title(): a letter is upper-cased after a non-letter, lower-cased after a letter
Title(s) ==
    [i \in DOMAIN s |->
        IF i = 1 \/ ~(IsUpperChar(s[i - 1]) \/ IsLowerChar(s[i - 1]))
        THEN UpperChar(s[i]) ELSE LowerChar(s[i])]

\* sub in s, for strings
Contains(s, sub) ==
    \E i \in 0..(Len(s) - Len(sub)) : SubSeq(s, i + 1, i + Len(sub)) = sub

\* x in lst, for lists
InList(x, lst) == \E i \in DOMAIN lst : lst[i] = x

\* [f(x) for x in lst if p(x)] keeps list order
RECURSIVE SelectSeqIdx(_, _, _)
SelectSeqIdx(lst, keep, i) ==
    IF i > Len(lst) THEN <<>>
    ELSE IF i \in keep THEN <<lst[i]>> \o SelectSeqIdx(lst, keep, i + 1)
    ELSE SelectSeqIdx(lst, keep, i + 1)

\* ''.join of a list of line lists
RECURSIVE Flatten(_)
Flatten(ss) == IF ss = <<>> THEN <<>> ELSE Head(ss) \o Flatten(Tail(ss))

(***************************************************************************)
(* What call_tool hands back: a text, or an exception that left it         *)
(***************************************************************************)
NoResult == [status |-> "none"]
Text(lines) == [status |-> "text", text |-> lines]
Raise(exc) == [status |-> "raise", exc |-> exc]

(***************************************************************************)
(* Program constants                                                       *)
(***************************************************************************)
\* 15.207 is reported only for freq_mhz <= 30
ConductedMaxMHz == 30
\* the above_1ghz sub-table is consulted only for freq_mhz >= 1000
Above1GHzMinMHz == 1000
\* +10.5 dB converts a 10 m limit to 3 m (tenths of a dB)
DistanceCorrection == 105
\* measurement distance printed when cispr_32 names none
DefaultCisprDistanceM == 10
\* lte_bands_list renders bands[:30]
LteListCap == 30
\* json.dumps(data, indent=2)[:8000]
EcfrCharBudget == 8000

(***************************************************************************)
(* Limit Formatter                                                         *)
(***************************************************************************)
\* the uV/m field tested before the dBuV/m one
format_limit_value_UvmFirst(limit) ==
    IF "limit_uv_m" \in DOMAIN limit
    THEN [unit |-> "uV/m", v |-> limit["limit_uv_m"],
          derived |-> GetNum(limit, "limit_dbuv_m")]
    ELSE IF "limit_dbuv_m" \in DOMAIN limit
    THEN [unit |-> "dBuV/m", v |-> limit["limit_dbuv_m"]]
    ELSE IF "limit_dbuv" \in DOMAIN limit
    THEN [unit |-> "dBuV", v |-> limit["limit_dbuv"]]
    ELSE IF "limit_dbuv_qp" \in DOMAIN limit
    THEN [unit |-> "QP/Avg", v |-> limit["limit_dbuv_qp"],
          avg |-> GetNum(limit, "limit_dbuv_avg")]
    ELSE [unit |-> "See notes"]

\* the value part of the line: the first value field present decides
format_limit_value(limit) ==
    IF "limit_dbuv_m" \in DOMAIN limit
    THEN [unit |-> "dBuV/m", v |-> limit["limit_dbuv_m"]]
    ELSE IF "limit_uv_m" \in DOMAIN limit
    THEN [unit |-> "uV/m", v |-> limit["limit_uv_m"],
          derived |-> GetNum(limit, "limit_dbuv_m")]
    ELSE IF "limit_dbuv" \in DOMAIN limit
    THEN [unit |-> "dBuV", v |-> limit["limit_dbuv"]]
    ELSE IF "limit_dbuv_qp" \in DOMAIN limit
    THEN [unit |-> "QP/Avg", v |-> limit["limit_dbuv_qp"],
          avg |-> GetNum(limit, "limit_dbuv_avg")]
    ELSE [unit |-> "See notes"]

format_limit_result(limit) ==
    [t |-> "limit",
     lo |-> GetNum(limit, "freq_min_mhz"),
     hi |-> GetNum(limit, "freq_max_mhz"),
     value |-> format_limit_value(limit),
     distance |-> IF "distance_m" \in DOMAIN limit THEN Some(limit["distance_m"]) ELSE None,
     detector |-> IF "detector" \in DOMAIN limit THEN Some(limit["detector"]) ELSE None,
     notes |-> IF "notes" \in DOMAIN limit THEN Some(limit["notes"]) ELSE None]

(***************************************************************************)
(* Range Matcher and Band Classifiers                                      *)
(***************************************************************************)
MinOf(S) == CHOOSE i \in S : \A j \in S : i <= j

\* the first element of lst, in list order, whose index is in hits
FirstHit(lst, hits) == IF hits = {} THEN None ELSE Some(lst[MinOf(hits)])

\* the upper endpoint let in
InHalfOpen_Closed(limit, freq_mhz) ==
    limit["freq_min_mhz"] <= freq_mhz /\ freq_mhz <= limit["freq_max_mhz"]

\* limit['freq_min_mhz'] <= freq_mhz < limit['freq_max_mhz']
InHalfOpen(limit, freq_mhz) ==
    limit["freq_min_mhz"] <= freq_mhz /\ freq_mhz < limit["freq_max_mhz"]

find_limit_for_frequency(limits, freq_mhz) ==
    FirstHit(limits, {i \in DOMAIN limits : InHalfOpen(limits[i], freq_mhz)})

\* the upper endpoint left out
InClosed_HalfOpen(band, freq_mhz) ==
    band["freq_min_mhz"] <= freq_mhz /\ freq_mhz < band["freq_max_mhz"]

\* band['freq_min_mhz'] <= freq_mhz <= band['freq_max_mhz']
InClosed(band, freq_mhz) ==
    band["freq_min_mhz"] <= freq_mhz /\ freq_mhz <= band["freq_max_mhz"]

check_restricted_band(freq_mhz) ==
    LET bands == Get(RESTRICTED_BANDS, "restricted_bands", <<>>)
    IN  FirstHit(bands, {i \in DOMAIN bands : InClosed(bands[i], freq_mhz)})

\* the upper end of the pair left out
InPair_HalfOpen(rng, freq_mhz) == rng[1] <= freq_mhz /\ freq_mhz < rng[2]

\* rng[0] <= freq_mhz <= rng[1] for a [min, max] pair
InPair(rng, freq_mhz) == rng[1] <= freq_mhz /\ freq_mhz <= rng[2]

check_ism_band(freq_mhz) ==
    LET ism_bands == Get(Get(PART18_LIMITS, "ism_bands", EmptyDict), "bands", <<>>)
    IN  FirstHit(ism_bands,
                 {i \in DOMAIN ism_bands :
                     InPair(Get(ism_bands[i], "range_mhz", <<0, 0>>), freq_mhz)})

find_lte_band(band_num) ==
    LET bands == Get(LTE_BANDS, "bands", <<>>)
    IN  FirstHit(bands, {i \in DOMAIN bands : bands[i]["band"] = band_num})

\* the key compared as written
NrNameIs_CaseSensitive(band, band_name) == band["band"] = band_name

\* band['band'].lower() == band_name, band_name lower-cased on entry
NrNameIs(band, band_name) == Lower(band["band"]) = Lower(band_name)

find_nr_band(band_name) ==
    LET fr1 == Get(Get(NR_BANDS, "fr1_bands", EmptyDict), "bands", <<>>)
        fr2 == Get(Get(NR_BANDS, "fr2_bands", EmptyDict), "bands", <<>>)
        hit1 == FirstHit(fr1, {i \in DOMAIN fr1 : NrNameIs(fr1[i], band_name)})
    IN  IF hit1 # None THEN hit1
        ELSE FirstHit(fr2, {i \in DOMAIN fr2 : NrNameIs(fr2[i], band_name)})

(***************************************************************************)
(* Query Orchestrators: the branches of call_tool                          *)
(* Section titles and class descriptions are display text read with        *)
(* .get(key, default); the header lines carry the section or class name.   *)
(***************************************************************************)
\* a header followed by the formatted limit, or nothing when no range matched
LimitBlock(header, limit) ==
    IF limit # None THEN header \o <<format_limit_result(limit[1])>> ELSE <<>>

Limits(d) == Get(d, "limits", <<>>)

ClassA == <<"A">>
ClassB == <<"B">>
ClassBoth == <<"b", "o", "t", "h">>

\* 15.207 reported whenever it is asked for
Include15207_AnyFrequency(section, freq_mhz) == section \in {"15.207", "all"}

\* section in ["15.207", "all"] and freq_mhz <= 30
Include15207(section, freq_mhz) ==
    section \in {"15.207", "all"} /\ freq_mhz <= ConductedMaxMHz

\* the two class blocks of 15.109 or 15.207
Part15ClassBlocks(sec, sec_data, device_class, freq_mhz) ==
    (IF device_class \in {ClassA, ClassBoth}
     THEN LimitBlock(<<[t |-> "class", sec |-> sec, cls |-> "A"]>>,
                     find_limit_for_frequency(
                         Limits(Get(sec_data, "class_a", EmptyDict)), freq_mhz))
     ELSE <<>>)
    \o
    (IF device_class \in {ClassB, ClassBoth}
     THEN LimitBlock(<<[t |-> "class", sec |-> sec, cls |-> "B"]>>,
                     find_limit_for_frequency(
                         Limits(Get(sec_data, "class_b", EmptyDict)), freq_mhz))
     ELSE <<>>)

RestrictedWarning(freq_mhz) ==
    LET restricted == check_restricted_band(freq_mhz)
    IN  IF restricted # None
        THEN <<[t |-> "restricted_warning", f |-> freq_mhz],
               [t |-> "restricted_band",
                freq_min_mhz |-> restricted[1]["freq_min_mhz"],
                freq_max_mhz |-> restricted[1]["freq_max_mhz"],
                service |-> restricted[1]["service"]]>>
        ELSE <<>>

fcc_part15_limit(arguments) ==
    LET freq_mhz == arguments["frequency_mhz"]
        section == Get(arguments, "section", "all")
        device_class == Get(arguments, "device_class", ClassBoth)
    IN  Text(
          <<[t |-> "title", name |-> "FCC Part 15 Limits", f |-> freq_mhz]>>
          \o (IF section \in {"15.109", "all"}
              THEN <<[t |-> "section", sec |-> "15.109"]>>
                   \o Part15ClassBlocks("15.109",
                          Get(PART15_LIMITS, "section_15_109", EmptyDict),
                          device_class, freq_mhz)
              ELSE <<>>)
          \o (IF Include15207(section, freq_mhz)
              THEN <<[t |-> "section", sec |-> "15.207"]>>
                   \o Part15ClassBlocks("15.207",
                          Get(PART15_LIMITS, "section_15_207", EmptyDict),
                          device_class, freq_mhz)
              ELSE <<>>)
          \o (IF section \in {"15.209", "all"}
              THEN <<[t |-> "section", sec |-> "15.209"]>>
                   \o LimitBlock(<<>>,
                          find_limit_for_frequency(
                              Limits(Get(PART15_LIMITS, "section_15_209", EmptyDict)),
                              freq_mhz))
              ELSE <<>>)
          \o RestrictedWarning(freq_mhz))

\* f"{eq_type}_ism"
IsmKey(eq_type) == eq_type \o "_ism"

fcc_part18_limit(arguments) ==
    LET freq_mhz == arguments["frequency_mhz"]
        eq_type == Get(arguments, "equipment_type", "consumer")
        ism_band == check_ism_band(freq_mhz)
        sec_data == Get(PART18_LIMITS, "section_18_305", EmptyDict)
        eq_data == Get(sec_data, IsmKey(eq_type), EmptyDict)
        limits == Get(eq_data, "emissions_outside_ism", <<>>)
    IN  Text(
          <<[t |-> "title", name |-> "FCC Part 18 (ISM Equipment)", f |-> freq_mhz]>>
          \o (IF ism_band # None
              THEN <<[t |-> "within_ism_band",
                      center_mhz |-> ism_band[1]["center_mhz"],
                      range_mhz |-> ism_band[1]["range_mhz"]]>>
                   \o (IF "notes" \in DOMAIN ism_band[1]
                       THEN <<[t |-> "ism_notes", notes |-> ism_band[1]["notes"]]>>
                       ELSE <<>>)
                   \o <<[t |-> "no_limit_within_ism_band"]>>
              ELSE <<[t |-> "outside_ism_bands"]>>)
          \o LimitBlock(<<[t |-> "limits_outside_ism", eq |-> eq_type]>>,
                        find_limit_for_frequency(limits, freq_mhz)))

fcc_restricted_bands(arguments) ==
    LET freq_mhz == arguments["frequency_mhz"]
        restricted == check_restricted_band(freq_mhz)
    IN  IF restricted # None
        THEN Text(<<[t |-> "RESTRICTED BAND", f |-> freq_mhz],
                    [t |-> "restricted_band",
                     freq_min_mhz |-> restricted[1]["freq_min_mhz"],
                     freq_max_mhz |-> restricted[1]["freq_max_mhz"]],
                    [t |-> "protected_service", service |-> restricted[1]["service"]],
                    [t |-> "prohibited_note"]>>)
        ELSE Text(<<[t |-> "CLEAR", f |-> freq_mhz]>>)

\* the window taken as open
InWindow_Open(b, arguments) ==
    /\ b["freq_max_mhz"] > Get(arguments, "freq_min_mhz", 0)
    /\ ("freq_max_mhz" \in DOMAIN arguments
            => b["freq_min_mhz"] < arguments["freq_max_mhz"])

\* b['freq_max_mhz'] >= freq_min and b['freq_min_mhz'] <= freq_max, with
\* freq_min defaulting to 0 and freq_max to float('inf')
InWindow(b, arguments) ==
    /\ b["freq_max_mhz"] >= Get(arguments, "freq_min_mhz", 0)
    /\ ("freq_max_mhz" \in DOMAIN arguments
            => b["freq_min_mhz"] <= arguments["freq_max_mhz"])

RestrictedRow(band) ==
    [t |-> "band_row", freq_min_mhz |-> band["freq_min_mhz"],
     freq_max_mhz |-> band["freq_max_mhz"], service |-> band["service"]]

fcc_restricted_bands_list(arguments) ==
    LET bands == Get(RESTRICTED_BANDS, "restricted_bands", <<>>)
        filtered == SelectSeqIdx(bands,
                        {i \in DOMAIN bands : InWindow(bands[i], arguments)}, 1)
    IN  Text(<<[t |-> "title", name |-> "FCC Part 15.205 Restricted Bands",
                count |-> Len(filtered)]>>
             \o [i \in DOMAIN filtered |-> RestrictedRow(filtered[i])])

ism_bands_list(arguments) ==
    LET ism_bands == Get(Get(PART18_LIMITS, "ism_bands", EmptyDict), "bands", <<>>)
    IN  Text(<<[t |-> "title", name |-> "ISM Frequency Bands"]>>
             \o [i \in DOMAIN ism_bands |->
                   [t |-> "ism_row",
                    center_mhz |-> ism_bands[i]["center_mhz"],
                    range_mhz |-> ism_bands[i]["range_mhz"],
                    notes |-> IF "notes" \in DOMAIN ism_bands[i]
                              THEN Some(ism_bands[i]["notes"]) ELSE None]])

\* bool(d) for a dict: an empty dict is false
Truthy(d) == DOMAIN d # {}

\* f"class_{device_class}" for a lower-cased class; the tables hold only
\* class_a and class_b, so any other class names a key no table has
ClassKeyOf(device_class) ==
    IF device_class = <<"a">> THEN "class_a"
    ELSE IF device_class = <<"b">> THEN "class_b"
    ELSE "class_?"

\* the table a standard name selects, by substring; None when unrecognized
CisprTableKey(standard) ==
    IF Contains(standard, <<"3", "2">>) \/ Contains(standard, <<"2", "2">>)
    THEN Some("cispr_32")
    ELSE IF Contains(standard, <<"1", "1">>) THEN Some("cispr_11")
    ELSE IF Contains(standard, <<"1", "4">>) THEN Some("cispr_14_1")
    ELSE None

\* the fallback taken at any frequency
UseAbove1GHz_AnyFrequency(above_1g, freq_mhz) == Truthy(above_1g)

\* above_1g and freq_mhz >= 1000
UseAbove1GHz(above_1g, freq_mhz) ==
    Truthy(above_1g) /\ freq_mhz >= Above1GHzMinMHz

CisprRadiated(class_data, freq_mhz) ==
    LET rad_data == Get(class_data, "radiated_emissions", EmptyDict)
        limit == find_limit_for_frequency(Limits(rad_data), freq_mhz)
        above_1g == Get(rad_data, "above_1ghz", EmptyDict)
    IN  IF limit # None
        THEN LimitBlock(<<[t |-> "radiated_emissions",
                           measurement_distance_m |->
                               GetNum(rad_data, "measurement_distance_m")]>>,
                        limit)
        ELSE IF UseAbove1GHz(above_1g, freq_mhz)
        THEN LimitBlock(<<[t |-> "radiated_emissions_above_1ghz",
                           measurement_distance_m |->
                               GetNum(above_1g, "measurement_distance_m")]>>,
                        find_limit_for_frequency(Limits(above_1g), freq_mhz))
        ELSE <<[t |-> "no_radiated_limit_found"]>>

CisprConducted(class_data, freq_mhz) ==
    LET cond_data == Get(class_data, "conducted_emissions", EmptyDict)
        limit == find_limit_for_frequency(Limits(cond_data), freq_mhz)
    IN  IF limit # None
        THEN LimitBlock(<<[t |-> "conducted_emissions",
                           port |-> Get(cond_data, "port", "AC mains")]>>,
                        limit)
        ELSE <<[t |-> "no_conducted_limit_found"]>>

\* the class table a lower-cased standard and class select: class_b unless the
\* class is a or b; the class key directly under the standard, else under group_1
CisprClassData(standard, device_class) ==
    LET data == Get(CISPR_LIMITS, CisprTableKey(standard)[1], EmptyDict)
        class_key == IF device_class \in {<<"a">>, <<"b">>}
                     THEN ClassKeyOf(device_class) ELSE "class_b"
    IN  Get(data, class_key,
            Get(Get(data, "group_1", EmptyDict), class_key, EmptyDict))

get_cispr_limit(standard_arg, device_class_arg, freq_mhz, emission_type) ==
    LET standard == Lower(standard_arg)
        device_class == Lower(device_class_arg)
        class_data == CisprClassData(standard, device_class)
    IN  IF CisprTableKey(standard) = None
        THEN <<[t |-> "unknown_cispr_standard", standard |-> standard]>>
        ELSE IF ~Truthy(class_data)
        THEN <<[t |-> "no_data_for", standard |-> standard,
                device_class |-> Upper(device_class)]>>
        ELSE <<[t |-> "title", name |-> "CISPR", standard |-> Upper(standard),
                device_class |-> Upper(device_class), f |-> freq_mhz]>>
             \o (IF emission_type = "radiated"
                 THEN CisprRadiated(class_data, freq_mhz)
                 ELSE CisprConducted(class_data, freq_mhz))

cispr_limit(arguments) ==
    Text(get_cispr_limit(arguments["standard"],
                         Get(arguments, "device_class", <<"B">>),
                         arguments["frequency_mhz"],
                         Get(arguments, "emission_type", "radiated")))

\* if fcc_limit and cispr_limit
BothFound(fcc_limit, cispr32_limit) == fcc_limit # None /\ cispr32_limit # None

emc_compare_limits(arguments) ==
    LET freq_mhz == arguments["frequency_mhz"]
        device_class == Upper(Get(arguments, "device_class", <<"B">>))
        class_key == ClassKeyOf(Lower(device_class))
        fcc_data == Get(Get(PART15_LIMITS, "section_15_109", EmptyDict),
                        class_key, EmptyDict)
        fcc_limit == find_limit_for_frequency(Limits(fcc_data), freq_mhz)
        cispr_data == Get(Get(CISPR_LIMITS, "cispr_32", EmptyDict),
                          class_key, EmptyDict)
        cispr_rad == Get(cispr_data, "radiated_emissions", EmptyDict)
        cispr32_limit == find_limit_for_frequency(Limits(cispr_rad), freq_mhz)
    IN  \* fcc_limit['limit_dbuv_m'], fcc_limit['distance_m']
        IF fcc_limit # None /\ ~({"limit_dbuv_m", "distance_m"} \subseteq DOMAIN fcc_limit[1])
        THEN Raise("KeyError")
        \* cispr_limit['limit_dbuv_m']
        ELSE IF cispr32_limit # None /\ "limit_dbuv_m" \notin DOMAIN cispr32_limit[1]
        THEN Raise("KeyError")
        ELSE Text(
          <<[t |-> "title", name |-> "EMC Limit Comparison", f |-> freq_mhz,
             device_class |-> device_class]>>
          \o (IF fcc_limit # None
              THEN <<[t |-> "fcc_15_109",
                      limit_dbuv_m |-> fcc_limit[1]["limit_dbuv_m"],
                      distance_m |-> fcc_limit[1]["distance_m"]]>>
              ELSE <<>>)
          \o (IF cispr32_limit # None
              THEN <<[t |-> "cispr_32",
                      limit_dbuv_m |-> cispr32_limit[1]["limit_dbuv_m"],
                      distance_m |-> Get(cispr_rad, "measurement_distance_m",
                                         DefaultCisprDistanceM)]>>
              ELSE <<>>)
          \o (IF BothFound(fcc_limit, cispr32_limit)
              THEN <<[t |-> "distance_correction_note"],
                     [t |-> "cispr_32_at_3m",
                      dbuv_m |-> cispr32_limit[1]["limit_dbuv_m"] + DistanceCorrection]>>
              ELSE <<>>))

\* bool(s) for a string or a list: empty is false
NonEmpty(s) == Len(s) > 0

MinNat(a, b) == IF a <= b THEN a ELSE b

\* lst[:n]
Prefix(lst, n) == SubSeq(lst, 1, MinNat(n, Len(lst)))

lte_band_lookup(arguments) ==
    LET band_num == arguments["band"]
        found == find_lte_band(band_num)
        band == found[1]
    IN  IF found # None
        THEN Text(
          <<[t |-> "title", name |-> "LTE Band", band_num |-> band_num,
             band_title |-> Get(band, "name", "Unknown")]>>
          \o (IF NonEmpty(Get(band, "uplink_mhz", <<>>))
              THEN <<[t |-> "uplink", range_mhz |-> band["uplink_mhz"]]>> ELSE <<>>)
          \o (IF NonEmpty(Get(band, "downlink_mhz", <<>>))
              THEN <<[t |-> "downlink", range_mhz |-> band["downlink_mhz"]]>> ELSE <<>>)
          \o <<[t |-> "duplex", duplex |-> Get(band, "duplex", "Unknown")],
               [t |-> "bandwidths", bandwidth_mhz |-> Get(band, "bandwidth_mhz", <<>>)],
               [t |-> "regions", regions |-> Get(band, "regions", <<>>)]>>
          \o (IF "notes" \in DOMAIN band
              THEN <<[t |-> "notes", notes |-> band["notes"]]>> ELSE <<>>))
        ELSE Text(<<[t |-> "lte_band_not_found", band_num |-> band_num]>>)

\* the region matched as a substring of a band's region
RegionMatches_Substring(region, b) ==
    LET regions == Get(b, "regions", <<>>)
    IN  \E i \in DOMAIN regions : Contains(Lower(regions[i]), region)

\* region in [r.lower() for r in b.get('regions', [])]
RegionMatches(region, b) ==
    LET regions == Get(b, "regions", <<>>)
    IN  InList(region, [i \in DOMAIN regions |-> Lower(regions[i])])

LteRow(band) ==
    [t |-> "lte_row", band_num |-> band["band"],
     range_mhz |-> Get(band, "downlink_mhz", <<0, 0>>),
     duplex |-> band["duplex"], band_title |-> Get(band, "name", "")]

LteCarriers == <<"att", "verizon", "tmobile">>

lte_bands_list(arguments) ==
    LET region == Lower(Get(arguments, "region", <<>>))
        carrier == Lower(Get(arguments, "carrier", <<>>))
        carrier_bands == Get(Get(LTE_BANDS, "us_carrier_bands", EmptyDict),
                             carrier, EmptyDict)
        all_bands == Get(LTE_BANDS, "bands", <<>>)
        bands == IF NonEmpty(region)
                 THEN SelectSeqIdx(all_bands,
                          {i \in DOMAIN all_bands : RegionMatches(region, all_bands[i])}, 1)
                 ELSE all_bands
        shown == Prefix(bands, LteListCap)
    IN  IF NonEmpty(carrier)
        THEN IF Truthy(carrier_bands)
             THEN Text(<<[t |-> "title", name |-> "LTE Bands for", carrier |-> Upper(carrier)],
                         [t |-> "primary_bands", bands |-> Get(carrier_bands, "primary", <<>>)],
                         [t |-> "lte_m_bands", bands |-> Get(carrier_bands, "lte_m", <<>>)]>>)
             ELSE Text(<<[t |-> "carrier_not_found", carrier |-> carrier,
                          available |-> LteCarriers]>>)
        ELSE Text(<<[t |-> "title", name |-> "LTE Bands", region |-> Title(region)]>>
                  \o [i \in DOMAIN shown |-> LteRow(shown[i])])

nr_band_lookup(arguments) ==
    LET band_name == arguments["band"]
        found == find_nr_band(band_name)
        band == found[1]
    IN  IF found = None
        THEN Text(<<[t |-> "nr_band_not_found", band_name |-> band_name]>>)
        \* band['downlink_mhz'] is read whenever uplink_mhz is present
        ELSE IF "uplink_mhz" \in DOMAIN band /\ "downlink_mhz" \notin DOMAIN band
        THEN Raise("KeyError")
        ELSE Text(
          <<[t |-> "title", name |-> "5G NR Band", band_name |-> band["band"],
             band_title |-> Get(band, "name", "Unknown")]>>
          \o (IF "uplink_mhz" \in DOMAIN band
              THEN <<[t |-> "uplink", range_mhz |-> band["uplink_mhz"]],
                     [t |-> "downlink", range_mhz |-> band["downlink_mhz"]]>>
              ELSE IF "range_mhz" \in DOMAIN band
              THEN <<[t |-> "range", range_mhz |-> band["range_mhz"]]>>
              ELSE <<>>)
          \o <<[t |-> "duplex", duplex |-> Get(band, "duplex", "Unknown")],
               [t |-> "max_bw", max_bandwidth_mhz |-> GetNum(band, "max_bandwidth_mhz")]>>
          \o (IF "notes" \in DOMAIN band
              THEN <<[t |-> "notes", notes |-> band["notes"]]>> ELSE <<>>))

FR1 == <<"F", "R", "1">>
FR2 == <<"F", "R", "2">>
ALL == <<"A", "L", "L">>

nr_bands_list(arguments) ==
    LET freq_range == Upper(Get(arguments, "frequency_range", <<"a", "l", "l">>))
        carrier == Lower(Get(arguments, "carrier", <<>>))
        carrier_bands == Get(Get(NR_BANDS, "us_carrier_nr_bands", EmptyDict),
                             carrier, EmptyDict)
        fr1 == Get(Get(NR_BANDS, "fr1_bands", EmptyDict), "bands", <<>>)
        fr2 == Get(Get(NR_BANDS, "fr2_bands", EmptyDict), "bands", <<>>)
        fr1_shown == SelectSeqIdx(fr1, {i \in DOMAIN fr1 : "uplink_mhz" \in DOMAIN fr1[i]}, 1)
    IN  IF NonEmpty(carrier)
        THEN IF Truthy(carrier_bands)
             THEN Text(<<[t |-> "title", name |-> "5G NR Bands for", carrier |-> Upper(carrier)],
                         [t |-> "low_band", names |-> Get(carrier_bands, "low_band", <<>>)],
                         [t |-> "mid_band", names |-> Get(carrier_bands, "mid_band", <<>>)],
                         [t |-> "mmwave", names |-> Get(carrier_bands, "mmwave", <<>>)]>>
                       \o (IF "notes" \in DOMAIN carrier_bands
                           THEN <<[t |-> "notes", notes |-> carrier_bands["notes"]]>>
                           ELSE <<>>))
             ELSE Text(<<[t |-> "carrier_not_found", carrier |-> carrier]>>)
        \* an FR1 row reads band['duplex'], an FR2 row band['range_mhz']
        ELSE IF \/ /\ freq_range \in {FR1, ALL}
                   /\ \E i \in DOMAIN fr1_shown : "duplex" \notin DOMAIN fr1_shown[i]
                \/ /\ freq_range \in {FR2, ALL}
                   /\ \E i \in DOMAIN fr2 : "range_mhz" \notin DOMAIN fr2[i]
        THEN Raise("KeyError")
        ELSE Text(
          <<[t |-> "title", name |-> "5G NR Bands"]>>
          \o (IF freq_range \in {FR1, ALL}
              THEN <<[t |-> "section", sec |-> "FR1"]>>
                   \o [i \in DOMAIN fr1_shown |->
                         [t |-> "nr_row", band_name |-> fr1_shown[i]["band"],
                          range_mhz |-> fr1_shown[i]["uplink_mhz"],
                          duplex |-> fr1_shown[i]["duplex"],
                          band_title |-> Get(fr1_shown[i], "name", "")]]
              ELSE <<>>)
          \o (IF freq_range \in {FR2, ALL}
              THEN <<[t |-> "section", sec |-> "FR2"]>>
                   \o [i \in DOMAIN fr2 |->
                         [t |-> "nr_row", band_name |-> fr2[i]["band"],
                          range_mhz |-> fr2[i]["range_mhz"],
                          band_title |-> Get(fr2[i], "name", "")]]
              ELSE <<>>))

\* rng and rng[0] <= freq_mhz <= rng[1], for rng = band.get(key)
PairContains(band, key, freq_mhz) ==
    /\ key \in DOMAIN band
    /\ NonEmpty(band[key])
    /\ InPair(band[key], freq_mhz)

FoundLte(band, dir) == [t |-> "found", rat |-> "LTE", band_num |-> band["band"], dir |-> dir]
FoundNr(band, dir) == [t |-> "found", rat |-> "NR", band_name |-> band["band"], dir |-> dir]

\* the found list, in the order the three loops append to it
BandsContaining(freq_mhz) ==
    LET lte == Get(LTE_BANDS, "bands", <<>>)
        fr1 == Get(Get(NR_BANDS, "fr1_bands", EmptyDict), "bands", <<>>)
        fr2 == Get(Get(NR_BANDS, "fr2_bands", EmptyDict), "bands", <<>>)
    IN  Flatten([i \in DOMAIN lte |->
                   (IF PairContains(lte[i], "uplink_mhz", freq_mhz)
                    THEN <<FoundLte(lte[i], "uplink")>> ELSE <<>>)
                   \o (IF PairContains(lte[i], "downlink_mhz", freq_mhz)
                       THEN <<FoundLte(lte[i], "downlink")>> ELSE <<>>)])
        \o Flatten([i \in DOMAIN fr1 |->
                   (IF PairContains(fr1[i], "uplink_mhz", freq_mhz)
                    THEN <<FoundNr(fr1[i], "uplink")>> ELSE <<>>)
                   \o (IF PairContains(fr1[i], "downlink_mhz", freq_mhz)
                       THEN <<FoundNr(fr1[i], "downlink")>> ELSE <<>>)])
        \o Flatten([i \in DOMAIN fr2 |->
                   IF PairContains(fr2[i], "range_mhz", freq_mhz)
                   THEN <<FoundNr(fr2[i], "")>> ELSE <<>>])

frequency_to_band(arguments) ==
    LET freq_mhz == arguments["frequency_mhz"]
        found == BandsContaining(freq_mhz)
        ism == check_ism_band(freq_mhz)
    IN  Text(<<[t |-> "title", name |-> "Bands containing", f |-> freq_mhz]>>
             \o (IF NonEmpty(found) THEN found ELSE <<[t |-> "no_bands_found"]>>)
             \o (IF ism # None
                 THEN <<[t |-> "ism_band", center_mhz |-> ism[1]["center_mhz"]]>>
                 ELSE <<>>))

emc_standards_list(arguments) ==
    Text(<<[t |-> "title", name |-> "Available EMC Standards and Regulations"],
           [t |-> "section", sec |-> "FCC"],
           [t |-> "section", sec |-> "CISPR"],
           [t |-> "section", sec |-> "Cellular"],
           [t |-> "section", sec |-> "Coming Soon"]>>)

unknown_tool(name) == Text(<<[t |-> "unknown_tool", name |-> name]>>)

(***************************************************************************)
(* External Lookup Bridge                                                  *)
(***************************************************************************)
\* the URL shape: full text when a section is given, structure otherwise
EcfrUrl(arguments) ==
    IF Get(arguments, "section", "") # ""
    THEN [endpoint |-> "full", title |-> arguments["title"], part |-> arguments["part"],
          section |-> Some(arguments["section"])]
    ELSE [endpoint |-> "structure", title |-> arguments["title"],
          part |-> arguments["part"], section |-> None]

\* the body of the try block, for one outcome of the request:
\*   [kind |-> "response", status_code, json (parsable?), length of the dump]
\* the payload line is the first chars characters of a dump of dump characters
\*   [kind |-> "exception", exc]  client.get raised
EcfrTry(arguments, outcome) ==
    IF outcome.kind = "exception" THEN Raise(outcome.exc)
    ELSE IF outcome.status_code = 200
    THEN IF ~outcome.json THEN Raise("JSONDecodeError")
         ELSE Text(<<[t |-> "title", name |-> "eCFR Query", title |-> arguments["title"],
                      part |-> arguments["part"],
                      section |-> EcfrUrl(arguments).section],
                     [t |-> "payload", dump |-> outcome.length,
                      chars |-> MinNat(outcome.length, EcfrCharBudget)]>>)
    ELSE Text(<<[t |-> "ecfr_status", status_code |-> outcome.status_code]>>)

\* except httpx.HTTPError: only the transport's failures are caught
ExceptException_TransportOnly(exc) == exc \in {"TimeoutException", "ConnectError"}

\* except Exception: every failure of the request or of the decoding is one
ExceptException(exc) ==
    exc \in {"TimeoutException", "ConnectError", "JSONDecodeError"}

ecfr_query(arguments, outcome) ==
    LET tried == EcfrTry(arguments, outcome)
    IN  IF tried.status = "raise" /\ ExceptException(tried.exc)
        THEN Text(<<[t |-> "error_querying_ecfr", exc |-> tried.exc]>>)
        ELSE tried

(***************************************************************************)
(* Reference Data Store: the tables a process can have loaded.             *)
(* BaseStore is a small data set of the shapes the data files have; the    *)
(* other stores replace one table of it by a variant: a missing file       *)
(* (load_json returns {}), absent optional keys, generated range tables.   *)
(***************************************************************************)
\* longest generated table
MaxRecs == 2

\* the sequences over S of length at most n
SeqsUpTo(S, n) == UNION {[1..k -> S] : k \in 0..n}

\* query frequencies: the edges of the tables' ranges and the thresholds
Freqs == {0, 10, ConductedMaxMHz, ConductedMaxMHz + 1, 100,
          Above1GHzMinMHz - 1, Above1GHzMinMHz, Above1GHzMinMHz + 1, 3000, 7000}

Range(lo, hi) == [freq_min_mhz |-> lo, freq_max_mhz |-> hi]

\* dict | dict
Merge(d, e) == [k \in DOMAIN d \cup DOMAIN e |-> IF k \in DOMAIN e THEN e[k] ELSE d[k]]

Part15Base ==
    [section_15_109 |->
        [class_a |-> [limits |-> <<
            Merge(Range(100, 1000), [limit_dbuv_m |-> 435, distance_m |-> 10])>>],
         class_b |-> [limits |-> <<
            Merge(Range(30, 100), [limit_dbuv_m |-> 400, distance_m |-> 3]),
            Merge(Range(100, 3000), [limit_dbuv_m |-> 435, distance_m |-> 3,
                                     detector |-> "quasi-peak"])>>]],
     section_15_207 |->
        [class_a |-> [limits |-> <<
            Merge(Range(0, 10), [limit_dbuv_qp |-> 790, limit_dbuv_avg |-> 660]),
            Merge(Range(10, 30), [limit_dbuv_qp |-> 730, limit_dbuv_avg |-> 600])>>],
         class_b |-> [limits |-> <<
            Merge(Range(0, 10), [limit_dbuv_qp |-> 560, limit_dbuv_avg |-> 460,
                                 notes |-> "decreases with log of frequency"]),
            Merge(Range(10, 30), [limit_dbuv_qp |-> 600, limit_dbuv_avg |-> 500])>>]],
     section_15_209 |->
        [limits |-> <<
            Merge(Range(30, 100), [limit_uv_m |-> 100, distance_m |-> 3]),
            Merge(Range(100, 1000), [limit_uv_m |-> 200, distance_m |-> 3])>>]]

\* range records a generated emission-limit table draws from; two overlap
RangeRecords ==
    {Merge(Range(30, 100), [limit_uv_m |-> 100, distance_m |-> 3]),
     Merge(Range(100, 1000), [limit_dbuv_m |-> 460]),
     Merge(Range(31, 3000), [limit_dbuv |-> 480, notes |-> "overlaps"])}

Part15Tables ==
    {EmptyDict,
     \* 15.109 records whose value field is not limit_dbuv_m, or without distance_m
     [Part15Base EXCEPT !.section_15_109 =
        [class_a |-> [limits |-> <<Merge(Range(30, 1000), [limit_uv_m |-> 90])>>],
         class_b |-> [limits |-> <<Merge(Range(30, 1000), [limit_dbuv_m |-> 400])>>]]],
     \* a conducted table whose last range runs past 30 MHz
     [Part15Base EXCEPT !.section_15_207 =
        [class_a |-> [limits |-> <<
            Merge(Range(0, 100), [limit_dbuv_qp |-> 790, limit_dbuv_avg |-> 660])>>],
         class_b |-> [limits |-> <<
            Merge(Range(0, 1001), [limit_dbuv |-> 600])>>]]],
     \* sections without class tables
     [section_15_109 |-> EmptyDict, section_15_207 |-> EmptyDict]}
    \cup {[Part15Base EXCEPT !.section_15_209 = [limits |-> ls]] :
             ls \in SeqsUpTo(RangeRecords, MaxRecs)}

ValueFields == {"limit_dbuv_m", "limit_uv_m", "limit_dbuv", "limit_dbuv_qp"}

ValueOf == [limit_dbuv_m |-> 400, limit_uv_m |-> 100, limit_dbuv |-> 600,
            limit_dbuv_qp |-> 560]

\* a record over the whole grid holding the value fields in fs
ValueRecord(fs) == Merge(Range(0, 7001), [k \in fs |-> ValueOf[k]])

Part18Base ==
    [ism_bands |-> [bands |-> <<
        [center_mhz |-> 30, range_mhz |-> <<30, 31>>, notes |-> "ISM"],
        [center_mhz |-> 1000, range_mhz |-> <<999, 1001>>]>>],
     section_18_305 |->
        [consumer_ism |-> [emissions_outside_ism |-> <<
            Merge(Range(0, 100), [limit_uv_m |-> 25, distance_m |-> 300])>>],
         industrial_ism |-> [emissions_outside_ism |-> <<
            Merge(Range(0, 1000), [limit_dbuv_m |-> 300, distance_m |-> 30]),
            Merge(Range(1000, 7001), [notes |-> "see 18.305(b)"])>>]]]

Part18Tables ==
    {EmptyDict, [ism_bands |-> EmptyDict]}
    \cup {[Part18Base EXCEPT !.section_18_305.consumer_ism =
              [emissions_outside_ism |-> <<ValueRecord(fs)>>]] :
             fs \in SUBSET ValueFields}

RestrictedRecords ==
    {Merge(Range(10, 30), [service |-> "Radio astronomy"]),
     Merge(Range(30, 100), [service |-> "Aeronautical"]),
     Merge(Range(31, 1000), [service |-> "Federal Government"]),
     Merge(Range(3000, 3000), [service |-> "Satellite"])}

RestrictedBase ==
    [restricted_bands |-> <<
        Merge(Range(10, 30), [service |-> "Radio astronomy"]),
        Merge(Range(999, 1000), [service |-> "Aeronautical"])>>]

RestrictedTables ==
    {EmptyDict}
    \cup {[restricted_bands |-> bs] : bs \in SeqsUpTo(RestrictedRecords, MaxRecs)}

CisprConductedBase ==
    [port |-> "AC mains",
     limits |-> <<Merge(Range(0, 30), [limit_dbuv_qp |-> 600, limit_dbuv_avg |-> 500])>>]

CisprAbove1GHz ==
    [measurement_distance_m |-> 3,
     limits |-> <<Merge(Range(1000, 3000), [limit_dbuv_m |-> 500, detector |-> "average"]),
                  Merge(Range(3000, 7000), [limit_dbuv_m |-> 540, detector |-> "average"])>>]

CisprClass(limit_30, limit_100) ==
    [radiated_emissions |->
        [measurement_distance_m |-> 10,
         limits |-> <<Merge(Range(30, 100), [limit_dbuv_m |-> limit_30]),
                      Merge(Range(100, 1000), [limit_dbuv_m |-> limit_100])>>,
         above_1ghz |-> CisprAbove1GHz],
     conducted_emissions |-> CisprConductedBase]

CisprBase ==
    [cispr_32 |-> [class_a |-> CisprClass(400, 470), class_b |-> CisprClass(300, 370)],
     cispr_11 |-> [group_1 |->
                     [class_a |-> [radiated_emissions |->
                                     [limits |-> <<Merge(Range(30, 1000),
                                                         [limit_dbuv_m |-> 400])>>]],
                      class_b |-> CisprClass(300, 370)]],
     cispr_14_1 |-> [class_b |-> [conducted_emissions |-> CisprConductedBase]]]

\* cispr_32 class_b radiated_emissions replaced
CisprWithRadiated(rad_data) ==
    [CisprBase EXCEPT !.cispr_32.class_b =
        [radiated_emissions |-> rad_data, conducted_emissions |-> CisprConductedBase]]

CisprTables ==
    {EmptyDict,
     \* no primary range, an above_1ghz range that also covers frequencies below 1 GHz
     CisprWithRadiated(
        [limits |-> <<>>,
         above_1ghz |-> [limits |-> <<Merge(Range(30, 7000), [limit_dbuv_m |-> 500])>>]]),
     \* above_1ghz present but empty
     CisprWithRadiated(
        [limits |-> <<Merge(Range(30, 1000), [limit_dbuv_m |-> 300])>>,
         above_1ghz |-> EmptyDict]),
     \* above_1ghz with an empty limits list
     CisprWithRadiated(
        [limits |-> <<Merge(Range(30, 1000), [limit_dbuv_m |-> 300])>>,
         above_1ghz |-> [limits |-> <<>>]]),
     \* no above_1ghz, a quasi-peak/average pair as the value
     CisprWithRadiated(
        [limits |-> <<Merge(Range(30, 1000),
                            [limit_dbuv_qp |-> 300, limit_dbuv_avg |-> 200])>>]),
     \* a class without radiated_emissions
     [CisprBase EXCEPT !.cispr_32.class_b =
        [conducted_emissions |-> CisprConductedBase]]}

Americas == <<"A", "m", "e", "r", "i", "c", "a", "s">>
Europe == <<"E", "u", "r", "o", "p", "e">>
Apac == <<"A", "P", "A", "C">>
Att == <<"a", "t", "t">>
Verizon == <<"v", "e", "r", "i", "z", "o", "n">>
N5 == <<"n", "5">>
N77 == <<"n", "7", "7">>
N260 == <<"n", "2", "6", "0">>

LteBandsBase ==
    <<[band |-> 2, name |-> "PCS", uplink_mhz |-> <<10, 30>>, downlink_mhz |-> <<31, 100>>,
       duplex |-> "FDD", bandwidth_mhz |-> <<5, 10>>, regions |-> <<Americas>>],
      [band |-> 29, name |-> "SDL", downlink_mhz |-> <<100, 999>>,
       duplex |-> "SDL", bandwidth_mhz |-> <<5>>, regions |-> <<Americas, Apac>>],
      [band |-> 41, uplink_mhz |-> <<1000, 3000>>, downlink_mhz |-> <<1000, 3000>>,
       duplex |-> "TDD", bandwidth_mhz |-> <<20>>, regions |-> <<Europe, Apac>>,
       notes |-> "TDD band"]>>

LteCarrierBands ==
    (Att :> [primary |-> <<2, 29>>, lte_m |-> <<2>>])
    @@ (Verizon :> [primary |-> <<2>>])

LteBase == [bands |-> LteBandsBase, us_carrier_bands |-> LteCarrierBands]

LteTables ==
    {EmptyDict,
     \* bands without the carrier groups
     [bands |-> LteBandsBase],
     \* a table longer than the listing shows
     [bands |-> [i \in 1..(LteListCap + 1) |->
                   [band |-> i, downlink_mhz |-> <<i, i + 1>>, duplex |-> "FDD",
                    regions |-> IF i % 2 = 0 THEN <<Americas>> ELSE <<Americas, Europe>>]]]}

Fr1Base ==
    <<[band |-> N5, name |-> "850", uplink_mhz |-> <<10, 29>>, downlink_mhz |-> <<30, 100>>,
       duplex |-> "FDD", max_bandwidth_mhz |-> 20],
      [band |-> N77, uplink_mhz |-> <<3000, 7000>>, downlink_mhz |-> <<3000, 7000>>,
       duplex |-> "TDD", max_bandwidth_mhz |-> 100, notes |-> "C-band"]>>

Fr2Base ==
    <<[band |-> N260, name |-> "39 GHz", range_mhz |-> <<3000, 7000>>,
       max_bandwidth_mhz |-> 400]>>

NrCarrierBands ==
    (Att :> [low_band |-> <<N5>>, mid_band |-> <<N77>>, mmwave |-> <<N260>>,
             notes |-> "mmWave in select cities"])
    @@ (Verizon :> [mid_band |-> <<N77>>])

NrBase ==
    [fr1_bands |-> [bands |-> Fr1Base], fr2_bands |-> [bands |-> Fr2Base],
     us_carrier_nr_bands |-> NrCarrierBands]

NrTables ==
    {EmptyDict,
     \* an FR1 record with uplink_mhz only
     [NrBase EXCEPT !.fr1_bands.bands =
        <<[band |-> N5, uplink_mhz |-> <<10, 29>>, duplex |-> "SUL"]>>],
     \* an FR1 record with downlink_mhz only
     [NrBase EXCEPT !.fr1_bands.bands =
        <<[band |-> N5, downlink_mhz |-> <<30, 100>>, duplex |-> "SDL"]>>],
     \* an FR1 record without duplex
     [NrBase EXCEPT !.fr1_bands.bands =
        <<[band |-> N5, uplink_mhz |-> <<10, 29>>, downlink_mhz |-> <<30, 100>>]>>],
     \* a name held by both sub-tables, upper case in FR1
     [NrBase EXCEPT !.fr1_bands.bands =
        <<[band |-> Upper(N260), uplink_mhz |-> <<10, 29>>, downlink_mhz |-> <<30, 100>>,
           duplex |-> "FDD"]>>],
     \* FR2 only
     [fr2_bands |-> [bands |-> Fr2Base]]}

BaseStore ==
    [p15 |-> Part15Base, p18 |-> Part18Base, rb |-> RestrictedBase,
     cispr |-> CisprBase, lte |-> LteBase, nr |-> NrBase]

\* the base store, and the stores that differ from it in one table
Stores ==
    {BaseStore}
    \cup {[BaseStore EXCEPT !.p15 = v] : v \in Part15Tables}
    \cup {[BaseStore EXCEPT !.p18 = v] : v \in Part18Tables}
    \cup {[BaseStore EXCEPT !.rb = v] : v \in RestrictedTables}
    \cup {[BaseStore EXCEPT !.cispr = v] : v \in CisprTables}
    \cup {[BaseStore EXCEPT !.lte = v] : v \in LteTables}
    \cup {[BaseStore EXCEPT !.nr = v] : v \in NrTables}


(***************************************************************************)
(* Arguments, as the tool schemas declare them.  An optional argument is   *)
(* given or left out.                                                      *)
(***************************************************************************)
OptArg(key, values) == {EmptyDict} \cup {key :> v : v \in values}

FreqArgs == {[frequency_mhz |-> f] : f \in Freqs}

Part15Args ==
    {Merge(Merge(a, s), c) :
        a \in FreqArgs,
        s \in OptArg("section", {"15.109", "15.207", "15.209", "all"}),
        c \in OptArg("device_class", {ClassA, ClassB, ClassBoth})}

Part18Args ==
    {Merge(a, e) : a \in FreqArgs,
                   e \in OptArg("equipment_type", {"consumer", "industrial"})}

WindowEdges == {0, 30, 31, 1000, 3000}

RestrictedListArgs ==
    {Merge(lo, hi) : lo \in OptArg("freq_min_mhz", WindowEdges),
                     hi \in OptArg("freq_max_mhz", WindowEdges)}

Standards == {<<"C", "I", "S", "P", "R", " ", "3", "2">>, <<"C", "I", "S", "P", "R", " ", "1", "1">>, <<"C", "I", "S", "P", "R", " ", "1", "4", "-", "1">>, <<"e", "n", "5", "5", "0", "2", "2">>, <<"C", "I", "S", "P", "R", " ", "2", "5">>}

CisprArgs ==
    {Merge(Merge(Merge(a, [standard |-> st]), c), e) :
        a \in FreqArgs, st \in Standards,
        c \in OptArg("device_class", {ClassA, <<"b">>}),
        e \in OptArg("emission_type", {"radiated", "conducted"})}

CompareArgs ==
    {Merge(a, c) : a \in FreqArgs,
                   c \in OptArg("device_class", {ClassA, ClassB, <<"a">>})}

LteLookupArgs == {[band |-> n] : n \in {2, 29, 41, 7}}

RegionArgs == {Americas, Lower(Americas), <<"A", "M", "E", "R">>, Europe, <<>>}
CarrierArgs == {Att, Upper(Att), <<"S", "p", "r", "i", "n", "t">>}

LteListArgs ==
    {Merge(r, c) : r \in OptArg("region", RegionArgs), c \in OptArg("carrier", CarrierArgs)}

NrLookupArgs == {[band |-> n] : n \in {N5, Upper(N77), N260, <<"n", "1">>, <<"n", "7">>}}

NrListArgs ==
    {Merge(r, c) : r \in OptArg("frequency_range", {FR1, Lower(FR2), Lower(ALL)}),
                   c \in OptArg("carrier", CarrierArgs)}

EcfrArgs ==
    {Merge([title |-> 47, part |-> p], sec) :
        p \in {15, 18}, sec \in OptArg("section", {"15.209", ""})}

\* what the outbound request can come to
EcfrOutcomes ==
    {[kind |-> "response", status_code |-> c, json |-> j, length |-> n] :
        c \in {200, 404, 500}, j \in BOOLEAN,
        n \in {2, EcfrCharBudget, EcfrCharBudget + 1}}
    \cup {[kind |-> "exception", exc |-> e] : e \in {"TimeoutException", "ConnectError"}}

UnknownNames == {"no_such_tool", ""}

(***************************************************************************)
(* The process: the tables are loaded once, then call_tool serves one      *)
(* request at a time; ecfr_query is suspended while the request is out.    *)
(***************************************************************************)
NoCall == [name |-> "", arguments |-> EmptyDict]

Init ==
    /\ \E st \in Stores :
        /\ PART15_LIMITS = st.p15
        /\ PART18_LIMITS = st.p18
        /\ RESTRICTED_BANDS = st.rb
        /\ CISPR_LIMITS = st.cispr
        /\ LTE_BANDS = st.lte
        /\ NR_BANDS = st.nr
    /\ pc = "idle"
    /\ call = NoCall
    /\ result = NoResult

\* call_tool(name, arguments) runs to its return or to the exception that leaves it
Serve(name, arguments, res) ==
    /\ pc = "idle"
    /\ call' = [name |-> name, arguments |-> arguments]
    /\ result' = res
    /\ pc' = "done"
    /\ UNCHANGED store

FccPart15Limit == \E a \in Part15Args : Serve("fcc_part15_limit", a, fcc_part15_limit(a))

FccPart18Limit == \E a \in Part18Args : Serve("fcc_part18_limit", a, fcc_part18_limit(a))

FccRestrictedBands ==
    \E a \in FreqArgs : Serve("fcc_restricted_bands", a, fcc_restricted_bands(a))

FccRestrictedBandsList ==
    \E a \in RestrictedListArgs :
        Serve("fcc_restricted_bands_list", a, fcc_restricted_bands_list(a))

IsmBandsList == Serve("ism_bands_list", EmptyDict, ism_bands_list(EmptyDict))

CisprLimit == \E a \in CisprArgs : Serve("cispr_limit", a, cispr_limit(a))

EmcCompareLimits ==
    \E a \in CompareArgs : Serve("emc_compare_limits", a, emc_compare_limits(a))

LteBandLookup == \E a \in LteLookupArgs : Serve("lte_band_lookup", a, lte_band_lookup(a))

LteBandsList == \E a \in LteListArgs : Serve("lte_bands_list", a, lte_bands_list(a))

NrBandLookup == \E a \in NrLookupArgs : Serve("nr_band_lookup", a, nr_band_lookup(a))

NrBandsList == \E a \in NrListArgs : Serve("nr_bands_list", a, nr_bands_list(a))

FrequencyToBand == \E a \in FreqArgs : Serve("frequency_to_band", a, frequency_to_band(a))

EmcStandardsList == Serve("emc_standards_list", EmptyDict, emc_standards_list(EmptyDict))

UnknownTool == \E n \in UnknownNames : Serve(n, EmptyDict, unknown_tool(n))

\* ecfr_query up to "await client.get(url, timeout=30.0)"
EcfrQuery ==
    \E a \in EcfrArgs :
        /\ pc = "idle"
        /\ call' = [name |-> "ecfr_query", arguments |-> a]
        /\ pc' = "awaiting"
        /\ UNCHANGED <<store, result>>

\* the request comes to an outcome and ecfr_query runs to its end
EcfrComplete ==
    \E o \in EcfrOutcomes :
        /\ pc = "awaiting"
        /\ result' = ecfr_query(call.arguments, o)
        /\ pc' = "done"
        /\ UNCHANGED <<store, call>>

\* the result is handed to the transport; the next request can be served
Return ==
    /\ pc = "done"
    /\ pc' = "idle"
    /\ call' = NoCall
    /\ result' = NoResult
    /\ UNCHANGED store

Next ==
    \/ FccPart15Limit
    \/ FccPart18Limit
    \/ FccRestrictedBands
    \/ FccRestrictedBandsList
    \/ IsmBandsList
    \/ CisprLimit
    \/ EmcCompareLimits
    \/ LteBandLookup
    \/ LteBandsList
    \/ NrBandLookup
    \/ NrBandsList
    \/ FrequencyToBand
    \/ EmcStandardsList
    \/ UnknownTool
    \/ EcfrQuery
    \/ EcfrComplete
    \/ Return

Spec == Init /\ [][Next]_vars

(***************************************************************************)
(* Properties                                                              *)
(***************************************************************************)
Done(name) == pc = "done" /\ call.name = name

\* the lines of the returned text; none when the call raised
Lines == IF result.status = "text" THEN result.text ELSE <<>>

HasLine(tag) == \E i \in DOMAIN Lines : Lines[i].t = tag

\* some record of the list holds f in [freq_min_mhz, freq_max_mhz)
Covers(limits, f) ==
    \E i \in DOMAIN limits :
        limits[i].freq_min_mhz <= f /\ f < limits[i].freq_max_mhz

\* line i of the text is a limit line of a record of limits whose range holds f
LimitLineFrom(i, limits, f) ==
    /\ i \in DOMAIN Lines
    /\ Lines[i].t = "limit"
    /\ \E j \in DOMAIN limits :
        /\ Lines[i].lo = Num(limits[j].freq_min_mhz)
        /\ Lines[i].hi = Num(limits[j].freq_max_mhz)
        /\ limits[j].freq_min_mhz <= f /\ f < limits[j].freq_max_mhz

\* the radiated tables a served cispr_limit call looks in
C1_Radiated ==
    Get(CisprClassData(Lower(call.arguments.standard),
                       Lower(Get(call.arguments, "device_class", <<"B">>))),
        "radiated_emissions", EmptyDict)
C1_Primary == Get(C1_Radiated, "limits", <<>>)
C1_Above == Get(C1_Radiated, "above_1ghz", EmptyDict)

\* a radiated lookup that got as far as the tables and found no primary range
C1_NoPrimaryMatch ==
    /\ Done("cispr_limit")
    /\ Get(call.arguments, "emission_type", "radiated") = "radiated"
    /\ HasLine("title")
    /\ ~Covers(C1_Primary, call.arguments.frequency_mhz)

\* C1: in a CISPR radiated lookup with no match in the primary limits table, at
\* f >= 1000 with an above_1ghz sub-table present the result comes from that
\* sub-table (its block and the limit of a range of it holding f, exactly when it
\* has one, and no not-found text), and at f < 1000 the result is the 'no radiated
\* limit found' text with no limit line, whatever above_1ghz holds.
C1_Above1GHzFallback ==
    C1_NoPrimaryMatch =>
        LET f == call.arguments.frequency_mhz
            above == Get(C1_Above, "limits", <<>>)
        IN  /\ (f >= 1000 /\ DOMAIN C1_Above # {}) =>
                /\ ~HasLine("no_radiated_limit_found")
                /\ ~HasLine("radiated_emissions")
                /\ Covers(above, f) =>
                    /\ Len(Lines) = 3
                    /\ Lines[2].t = "radiated_emissions_above_1ghz"
                    /\ LimitLineFrom(3, above, f)
                /\ ~Covers(above, f) => Len(Lines) = 1
            /\ f < 1000 =>
                /\ Len(Lines) = 2
                /\ Lines[2].t = "no_radiated_limit_found"

\* below 1 GHz, no primary match, above_1ghz holds a range covering f: not found
C1_Witness ==
    /\ C1_NoPrimaryMatch
    /\ call.arguments.frequency_mhz < 1000
    /\ Covers(Get(C1_Above, "limits", <<>>), call.arguments.frequency_mhz)
    /\ HasLine("no_radiated_limit_found")

\* the operations that look a limit, a band or an entry up, and whether the
\* served one found any
C2_LookupOps ==
    {"fcc_part15_limit", "fcc_part18_limit", "cispr_limit", "emc_compare_limits",
     "lte_band_lookup", "nr_band_lookup", "fcc_restricted_bands"}

C2_Matched ==
    CASE call.name \in {"fcc_part15_limit", "fcc_part18_limit", "cispr_limit"} ->
            HasLine("limit")
      [] call.name = "emc_compare_limits" -> HasLine("fcc_15_109") \/ HasLine("cispr_32")
      [] call.name \in {"lte_band_lookup", "nr_band_lookup"} -> HasLine("title")
      [] call.name = "fcc_restricted_bands" -> HasLine("restricted_band")

C2_NotFoundTags ==
    {"no_radiated_limit_found", "no_conducted_limit_found", "no_data_for",
     "unknown_cispr_standard", "lte_band_not_found", "nr_band_not_found", "CLEAR"}

\* C2: every lookup operation returns a text, and when nothing matched the query
\* the text holds an explicit 'no limit/band found' statement.
C2_NotFoundExplicit ==
    (pc = "done" /\ call.name \in C2_LookupOps) =>
        /\ result.status = "text"
        /\ ~C2_Matched => \E i \in DOMAIN Lines : Lines[i].t \in C2_NotFoundTags

\* a line of the text belongs to the Section 15.207 block
C3_Is15207(line) ==
    /\ line.t \in {"section", "class"}
    /\ line.sec = "15.207"

\* C3: a Part 15 lookup at frequency_mhz > 30 never shows the Section 15.207
\* block, whatever section and device class are asked for.
C3_No15207Above30 ==
    (Done("fcc_part15_limit") /\ call.arguments.frequency_mhz > 30) =>
        /\ result.status = "text"
        /\ \A i \in DOMAIN Lines : ~C3_Is15207(Lines[i])

\* 15.207 asked for above 30 MHz, with a class table whose range holds the
\* frequency: the block is left out
C3_Witness ==
    /\ Done("fcc_part15_limit")
    /\ call.arguments.frequency_mhz > 30
    /\ Get(call.arguments, "section", "all") = "15.207"
    /\ Covers(Limits(Get(Get(PART15_LIMITS, "section_15_207", EmptyDict),
                          "class_a", EmptyDict)),
              call.arguments.frequency_mhz)
    /\ Len(Lines) = 1

\* the class tables a served emc_compare_limits call looks in
C4_ClassKey ==
    LET dc == Lower(Get(call.arguments, "device_class", <<"B">>))
    IN  IF dc = <<"a">> THEN "class_a" ELSE "class_b"
C4_FccLimits ==
    Get(Get(Get(PART15_LIMITS, "section_15_109", EmptyDict), C4_ClassKey, EmptyDict),
        "limits", <<>>)
C4_CisprLimits ==
    Get(Get(Get(Get(CISPR_LIMITS, "cispr_32", EmptyDict), C4_ClassKey, EmptyDict),
            "radiated_emissions", EmptyDict),
        "limits", <<>>)

\* C4: the comparison shows the distance-correction note and the CISPR value
\* + 10.5 dB if and only if both the Part 15.109 limit and the CISPR 32 radiated
\* limit were found for the frequency and class.
C4_CorrectionIffBoth ==
    Done("emc_compare_limits") =>
        LET f == call.arguments.frequency_mhz
            both == Covers(C4_FccLimits, f) /\ Covers(C4_CisprLimits, f)
        IN  /\ both <=>
                \E i \in DOMAIN Lines :
                    /\ Lines[i].t = "cispr_32_at_3m"
                    /\ \E j \in DOMAIN C4_CisprLimits :
                        /\ C4_CisprLimits[j].freq_min_mhz <= f
                        /\ f < C4_CisprLimits[j].freq_max_mhz
                        /\ "limit_dbuv_m" \in DOMAIN C4_CisprLimits[j]
                        /\ Lines[i].dbuv_m = C4_CisprLimits[j].limit_dbuv_m + 105
            /\ both <=> HasLine("distance_correction_note")

\* C5: every dispatch call returns a text result; none raises.
C5_NoHardCrash == pc = "done" => result.status = "text"

\* the j-th smallest element of a set of list indices
Nth(K, j) == CHOOSE i \in K : Cardinality({m \in K : m < i}) = j - 1

\* band holds a [min, max] pair under key whose closed interval holds f
ClosedIn(band, key, f) ==
    /\ key \in DOMAIN band
    /\ band[key][1] <= f
    /\ f <= band[key][2]

C6_Lte == Get(LTE_BANDS, "bands", <<>>)
C6_Fr1 == Get(Get(NR_BANDS, "fr1_bands", EmptyDict), "bands", <<>>)
C6_Fr2 == Get(Get(NR_BANDS, "fr2_bands", EmptyDict), "bands", <<>>)

\* how many lines report the LTE band number n in direction dir
C6_LteEntries(n, dir) ==
    Cardinality({k \in DOMAIN Lines :
        /\ Lines[k].t = "found" /\ Lines[k].rat = "LTE"
        /\ Lines[k].band_num = n /\ Lines[k].dir = dir})

\* how many lines report the NR band named n in direction dir
C6_NrEntries(n, dir) ==
    Cardinality({k \in DOMAIN Lines :
        /\ Lines[k].t = "found" /\ Lines[k].rat = "NR"
        /\ Lines[k].band_name = n /\ Lines[k].dir = dir})

C6_One(holds) == IF holds THEN 1 ELSE 0

\* C6: the reverse lookup lists one entry for every LTE uplink or downlink range,
\* NR FR1 uplink or downlink range and NR FR2 range whose closed interval holds
\* the frequency, and no entry for a range that does not hold it.
C6_EveryContainingBand ==
    Done("frequency_to_band") =>
        LET f == call.arguments.frequency_mhz
        IN  /\ result.status = "text"
            /\ \A i \in DOMAIN C6_Lte :
                /\ C6_LteEntries(C6_Lte[i].band, "uplink")
                     = C6_One(ClosedIn(C6_Lte[i], "uplink_mhz", f))
                /\ C6_LteEntries(C6_Lte[i].band, "downlink")
                     = C6_One(ClosedIn(C6_Lte[i], "downlink_mhz", f))
            /\ \A i \in DOMAIN C6_Fr1 :
                /\ C6_NrEntries(C6_Fr1[i].band, "uplink")
                     = C6_One(ClosedIn(C6_Fr1[i], "uplink_mhz", f))
                /\ C6_NrEntries(C6_Fr1[i].band, "downlink")
                     = C6_One(ClosedIn(C6_Fr1[i], "downlink_mhz", f))
            /\ \A i \in DOMAIN C6_Fr2 :
                C6_NrEntries(C6_Fr2[i].band, "")
                     = C6_One(ClosedIn(C6_Fr2[i], "range_mhz", f))
            /\ Cardinality({k \in DOMAIN Lines : Lines[k].t = "found"})
                 = Cardinality({i \in DOMAIN C6_Lte : ClosedIn(C6_Lte[i], "uplink_mhz", f)})
                 + Cardinality({i \in DOMAIN C6_Lte : ClosedIn(C6_Lte[i], "downlink_mhz", f)})
                 + Cardinality({i \in DOMAIN C6_Fr1 : ClosedIn(C6_Fr1[i], "uplink_mhz", f)})
                 + Cardinality({i \in DOMAIN C6_Fr1 : ClosedIn(C6_Fr1[i], "downlink_mhz", f)})
                 + Cardinality({i \in DOMAIN C6_Fr2 : ClosedIn(C6_Fr2[i], "range_mhz", f)})

\* a frequency at the upper end of an LTE uplink range and inside an NR FR1
\* downlink range: both are reported
C6_Witness ==
    /\ Done("frequency_to_band")
    /\ \E i \in DOMAIN C6_Lte :
        /\ ClosedIn(C6_Lte[i], "uplink_mhz", call.arguments.frequency_mhz)
        /\ C6_Lte[i].uplink_mhz[2] = call.arguments.frequency_mhz
        /\ C6_LteEntries(C6_Lte[i].band, "uplink") = 1
    /\ \E i \in DOMAIN C6_Fr1 :
        /\ ClosedIn(C6_Fr1[i], "downlink_mhz", call.arguments.frequency_mhz)
        /\ C6_NrEntries(C6_Fr1[i].band, "downlink") = 1

C7_Bands == Get(RESTRICTED_BANDS, "restricted_bands", <<>>)

\* the table records whose closed interval holds f
C7_Hits(f) ==
    {i \in DOMAIN C7_Bands :
        C7_Bands[i].freq_min_mhz <= f /\ f <= C7_Bands[i].freq_max_mhz}

\* C7: the restricted-band check reports RESTRICTED with the band and service of
\* the first table record whose closed interval holds the frequency, and CLEAR
\* exactly when no record holds it.
C7_RestrictedPointCheck ==
    Done("fcc_restricted_bands") =>
        LET f == call.arguments.frequency_mhz
            hits == C7_Hits(f)
            first == C7_Bands[Nth(hits, 1)]
        IN  /\ result.status = "text"
            /\ HasLine("CLEAR") <=> hits = {}
            /\ HasLine("RESTRICTED BAND") <=> hits # {}
            /\ hits # {} =>
                /\ \E i \in DOMAIN Lines :
                    /\ Lines[i].t = "restricted_band"
                    /\ Lines[i].freq_min_mhz = first.freq_min_mhz
                    /\ Lines[i].freq_max_mhz = first.freq_max_mhz
                /\ \E i \in DOMAIN Lines :
                    /\ Lines[i].t = "protected_service"
                    /\ Lines[i].service = first.service
                /\ \A i \in DOMAIN Lines :
                    Lines[i].t = "protected_service" => Lines[i].service = first.service

\* the frequency is the upper endpoint of the first record holding it and a
\* later record holds it too: the first one is reported
C7_Witness ==
    /\ Done("fcc_restricted_bands")
    /\ Cardinality(C7_Hits(call.arguments.frequency_mhz)) >= 2
    /\ C7_Bands[Nth(C7_Hits(call.arguments.frequency_mhz), 1)].freq_max_mhz
         = call.arguments.frequency_mhz
    /\ HasLine("RESTRICTED BAND")

\* the records whose closed interval meets the window of the served list call
C8_InWindow ==
    {i \in DOMAIN C7_Bands :
        /\ C7_Bands[i].freq_max_mhz >= Get(call.arguments, "freq_min_mhz", 0)
        /\ "freq_max_mhz" \in DOMAIN call.arguments =>
                C7_Bands[i].freq_min_mhz <= call.arguments.freq_max_mhz}

\* C8: the restricted-band list holds exactly the records whose closed interval
\* meets the window [freq_min, freq_max] (0 and unbounded by default), in table
\* order, and the count in its header is the number of records listed.
C8_RestrictedList ==
    Done("fcc_restricted_bands_list") =>
        /\ result.status = "text"
        /\ Lines[1].t = "title"
        /\ Lines[1].count = Len(Lines) - 1
        /\ Len(Lines) - 1 = Cardinality(C8_InWindow)
        /\ \A j \in 1..Cardinality(C8_InWindow) :
            LET band == C7_Bands[Nth(C8_InWindow, j)]
            IN  /\ Lines[j + 1].t = "band_row"
                /\ Lines[j + 1].freq_min_mhz = band.freq_min_mhz
                /\ Lines[j + 1].freq_max_mhz = band.freq_max_mhz
                /\ Lines[j + 1].service = band.service

\* a window with both edges given that a listed record only touches at its
\* lower edge and that leaves another record out
C8_Witness ==
    /\ Done("fcc_restricted_bands_list")
    /\ {"freq_min_mhz", "freq_max_mhz"} \subseteq DOMAIN call.arguments
    /\ \E i \in C8_InWindow : C7_Bands[i].freq_max_mhz = call.arguments.freq_min_mhz
    /\ \E i \in DOMAIN C7_Bands : i \notin C8_InWindow
    /\ Len(Lines) = Cardinality(C8_InWindow) + 1

\* a served lte_bands_list call with a region and no carrier
C9_RegionListing ==
    /\ Done("lte_bands_list")
    /\ Get(call.arguments, "carrier", <<>>) = <<>>
    /\ Get(call.arguments, "region", <<>>) # <<>>

\* the table bands having a region that is, ignoring case, the given string
C9_Exact ==
    {i \in DOMAIN C6_Lte :
        \E k \in DOMAIN Get(C6_Lte[i], "regions", <<>>) :
            Lower(C6_Lte[i].regions[k]) = Lower(call.arguments.region)}

\* the table bands having a region that holds, ignoring case, the given string
C9_Substring ==
    {i \in DOMAIN C6_Lte :
        \E k \in DOMAIN Get(C6_Lte[i], "regions", <<>>) :
            Contains(Lower(C6_Lte[i].regions[k]), Lower(call.arguments.region))}

\* C9 as claimed: with a region and no carrier, the listing holds the bands having
\* a region of which the given string is a case-insensitive substring.
C9_RegionSubstring ==
    C9_RegionListing =>
        \A i \in C9_Substring :
            \E k \in DOMAIN Lines :
                Lines[k].t = "lte_row" /\ Lines[k].band_num = C6_Lte[i].band

\* C9 amended: with a region and no carrier, the listing holds exactly the bands
\* having a region equal, ignoring case, to the given string, in table order, up
\* to the first 30 of them.
C9_RegionExact ==
    C9_RegionListing =>
        LET n == IF Cardinality(C9_Exact) <= 30 THEN Cardinality(C9_Exact) ELSE 30
        IN  /\ result.status = "text"
            /\ Len(Lines) = n + 1
            /\ \A j \in 1..n :
                /\ Lines[j + 1].t = "lte_row"
                /\ Lines[j + 1].band_num = C6_Lte[Nth(C9_Exact, j)].band

\* a region given in another case than the table writes it, selecting some bands
\* and not others
C9_Witness ==
    /\ C9_RegionListing
    /\ \E i \in C9_Exact : \A k \in DOMAIN C6_Lte[i].regions :
            C6_Lte[i].regions[k] # call.arguments.region
    /\ \E i \in DOMAIN C6_Lte : i \notin C9_Exact
    /\ Len(Lines) = Cardinality(C9_Exact) + 1

\* C10: ecfr_query ends with a text whatever the request comes to: a 200 with a
\* JSON body, a 200 with a body that does not parse, another status, a timeout,
\* a connection error.
C10_EcfrNeverRaises ==
    Done("ecfr_query") => result.status = "text"

\* a 200 whose body did not parse, reported as text
C10_Witness ==
    /\ Done("ecfr_query")
    /\ \E i \in DOMAIN Lines :
        Lines[i].t = "error_querying_ecfr" /\ Lines[i].exc = "JSONDecodeError"

\* C11: on a 200 with a JSON body the payload shown is at most EcfrCharBudget
\* characters long, and whenever the dump was longer than that the text carries
\* a truncation notice.
C11_Payload == {i \in DOMAIN Lines : Lines[i].t = "payload"}

C11_TruncationNotice ==
    Done("ecfr_query") =>
        \A i \in C11_Payload :
            /\ Lines[i].chars <= EcfrCharBudget
            /\ Lines[i].dump > EcfrCharBudget => HasLine("truncation_notice")

\* C12: an unrecognized CISPR standard, and a carrier no table knows in the
\* LTE and in the NR band listing, are answered by a text whose message names
\* the valid alternatives.
C12_UnknownStandard ==
    /\ Done("cispr_limit")
    /\ CisprTableKey(Lower(call.arguments.standard)) = None

\* a carrier is given and the table named by key holds nothing for it
C12_UnknownCarrier(name, table, key) ==
    /\ Done(name)
    /\ NonEmpty(Get(call.arguments, "carrier", <<>>))
    /\ ~Truthy(Get(Get(table, key, EmptyDict),
                   Lower(Get(call.arguments, "carrier", <<>>)), EmptyDict))

C12_Case ==
    \/ C12_UnknownStandard
    \/ C12_UnknownCarrier("lte_bands_list", LTE_BANDS, "us_carrier_bands")
    \/ C12_UnknownCarrier("nr_bands_list", NR_BANDS, "us_carrier_nr_bands")

C12_NamesAlternatives ==
    C12_Case =>
        /\ result.status = "text"
        /\ \E i \in DOMAIN Lines :
                /\ Lines[i].t \in {"unknown_cispr_standard", "carrier_not_found"}
                /\ "available" \in DOMAIN Lines[i]
                /\ Lines[i].available # <<>>

\* C13: find_limit_for_frequency returns the first record of the list, in list
\* order, with freq_min_mhz <= f < freq_max_mhz, and None when and only when no
\* record holds f; where exactly one record holds f that record is returned.
\* Read on the 15.209 table, whose match fcc_part15_limit renders alone.
C13_Limits == Limits(Get(PART15_LIMITS, "section_15_209", EmptyDict))

C13_Call ==
    /\ Done("fcc_part15_limit")
    /\ Get(call.arguments, "section", "all") = "15.209"

C13_Hits(f) ==
    {i \in DOMAIN C13_Limits :
        C13_Limits[i].freq_min_mhz <= f /\ f < C13_Limits[i].freq_max_mhz}

C13_LimitLines == SelectSeq(Lines, LAMBDA l : l.t = "limit")

C13_RangeMatcher ==
    C13_Call =>
        LET f == call.arguments.frequency_mhz
            found == find_limit_for_frequency(C13_Limits, f)
        IN  /\ found = None <=> C13_Hits(f) = {}
            /\ \A k \in C13_Hits(f) :
                    (\A j \in C13_Hits(f) : k <= j) => found = Some(C13_Limits[k])
            /\ C13_LimitLines = IF found = None THEN <<>>
                                ELSE <<format_limit_result(found[1])>>

\* two records of the table hold the frequency and the first of them is shown
C13_Witness ==
    /\ C13_Call
    /\ C13_Hits(call.arguments.frequency_mhz) = {1, 2}
    /\ C13_LimitLines = <<format_limit_result(C13_Limits[1])>>
    /\ format_limit_result(C13_Limits[1]) # format_limit_result(C13_Limits[2])

\* C14: a limit line rendered through the uV/m branch shows the raw uV/m value
\* and the record's own dBuV/m value, never the placeholder.
C14_UvmLines ==
    {i \in DOMAIN Lines : Lines[i].t = "limit" /\ Lines[i].value.unit = "uV/m"}

C14_DerivedShown ==
    pc = "done" =>
        \A i \in C14_UvmLines : Lines[i].value.derived # Placeholder

\* C15: the value of a limit line comes from the first field the record holds
\* in the order limit_dbuv_m, limit_uv_m, limit_dbuv, limit_dbuv_qp, and is
\* "See notes" exactly when the record holds none of them; a record holding
\* none is rendered, not refused.  Read on the Part 18 line, whose record is
\* the one the range matcher returns for the equipment type asked for.
C15_Priority == <<"limit_dbuv_m", "limit_uv_m", "limit_dbuv", "limit_dbuv_qp">>

C15_Unit == [limit_dbuv_m |-> "dBuV/m", limit_uv_m |-> "uV/m",
             limit_dbuv |-> "dBuV", limit_dbuv_qp |-> "QP/Avg"]

C15_Table ==
    Get(Get(Get(PART18_LIMITS, "section_18_305", EmptyDict),
            IsmKey(Get(call.arguments, "equipment_type", "consumer")), EmptyDict),
        "emissions_outside_ism", <<>>)

C15_Record == find_limit_for_frequency(C15_Table, call.arguments.frequency_mhz)

C15_Rendered == Done("fcc_part18_limit") /\ C15_Record # None

C15_Present == {k \in DOMAIN C15_Priority : C15_Priority[k] \in DOMAIN C15_Record[1]}

C15_Line == Lines[Len(Lines)]

C15_ValuePriority ==
    C15_Rendered =>
        /\ result.status = "text"
        /\ C15_Line.t = "limit"
        /\ C15_Line.value.unit = "See notes" <=> C15_Present = {}
        /\ \A k \in C15_Present :
                (\A j \in C15_Present : k <= j) =>
                    /\ C15_Line.value.unit = C15_Unit[C15_Priority[k]]
                    /\ C15_Line.value.v = C15_Record[1][C15_Priority[k]]

\* a record holding every value field but limit_dbuv_m, shown in uV/m
C15_Witness ==
    /\ C15_Rendered
    /\ C15_Present = {2, 3, 4}
    /\ C15_Line.value.unit = "uV/m"
    /\ C15_Line.value.v = C15_Record[1].limit_uv_m

\* a record holding no value field, shown as "See notes"
C15_WitnessSeeNotes ==
    /\ C15_Rendered
    /\ C15_Present = {}
    /\ C15_Line.value.unit = "See notes"

\* C16: find_nr_band compares the whole band key with the name, letter case
\* aside; it returns the first FR1 record of that name, else the first FR2 one,
\* and None when and only when neither sub-table holds the name.  Read together
\* with the band nr_band_lookup then prints.
C16_Fr1 == Get(Get(NR_BANDS, "fr1_bands", EmptyDict), "bands", <<>>)
C16_Fr2 == Get(Get(NR_BANDS, "fr2_bands", EmptyDict), "bands", <<>>)

C16_Named(bands) ==
    {i \in DOMAIN bands : Lower(bands[i].band) = Lower(call.arguments.band)}

C16_First(bands) ==
    bands[CHOOSE k \in C16_Named(bands) : \A j \in C16_Named(bands) : k <= j]

C16_NrByName ==
    Done("nr_band_lookup") =>
        LET found == find_nr_band(call.arguments.band)
        IN  /\ found = None <=> (C16_Named(C16_Fr1) = {} /\ C16_Named(C16_Fr2) = {})
            /\ C16_Named(C16_Fr1) # {} => found = Some(C16_First(C16_Fr1))
            /\ (C16_Named(C16_Fr1) = {} /\ C16_Named(C16_Fr2) # {}) =>
                    found = Some(C16_First(C16_Fr2))
            /\ found = None <=> HasLine("nr_band_not_found")
            /\ (found # None /\ result.status = "text") =>
                    Lines[1].t = "title" /\ Lines[1].band_name = found[1].band

\* a name both sub-tables hold, written in another case than the FR1 key: the
\* FR1 record is the one printed
C16_Witness ==
    /\ Done("nr_band_lookup")
    /\ C16_Named(C16_Fr1) # {}
    /\ C16_Named(C16_Fr2) # {}
    /\ C16_First(C16_Fr1).band # call.arguments.band
    /\ C16_First(C16_Fr1).band # C16_First(C16_Fr2).band
    /\ result.status = "text"
    /\ Lines[1].band_name = C16_First(C16_Fr1).band

====
